---- MODULE Spec2Model ----
\* State machine of src/snake_game.py: game_loop and the helpers it calls.
\* The window (and with it the grid), the power-up timings and the time
\* horizon are scaled down so that the whole state space can be explored; the
\* code's logic is independent of their values. Time is counted in quanta of
\* one frame: clock.tick(speed) makes every unpaused iteration of the loop
\* take at least one.
EXTENDS Integers, Sequences, FiniteSets

\* ---------------------------------------------------------------- bounds
\* window size in pixels (the source has 800 x 600, a grid of 40 x 30)
SCREEN_WIDTH == 40
SCREEN_HEIGHT == 40
\* power-up timings in clock quanta (the source has 5 s and 20 s)
POWERUP_DURATION == 1
POWERUP_SPAWN_INTERVAL == 2
\* the time horizon: the clock starts at quantum 0 and the game is followed
\* up to quantum MaxTime
MaxTime == 7
\* time.time() may advance by up to this many quanta between two reads of
\* one tick (the tick's own running time, short against the power-up timings)
MaxLag == 1

\* ------------------------------------------------------------- constants
GRID_SIZE == 20
GRID_WIDTH == SCREEN_WIDTH \div GRID_SIZE
GRID_HEIGHT == SCREEN_HEIGHT \div GRID_SIZE
SNAKE_SPEED_NORMAL == 10
SNAKE_SPEED_BOOST == 20

None == <<>>
Directions == {"UP", "DOWN", "LEFT", "RIGHT"}
Keys == Directions \cup {"SPACE"}
Cells == (0 .. GRID_WIDTH - 1) \X (0 .. GRID_HEIGHT - 1)
Lags == 0 .. MaxLag

VARIABLES
    snake_body,          \* list of cells, head first
    food_pos,            \* cell
    powerup_pos,         \* cell or None
    direction,           \* stored direction
    score,
    paused,
    speed,
    powerup_active,
    powerup_timer,       \* clock value of the last power-up consumption
    last_powerup_spawn,  \* clock value of the last spawn (or session start)
    high_score,          \* value loaded at session start, raised at game over
    highscore_txt,       \* the file highscore.txt
    clock,               \* the current time (time.time())
    checked_at,          \* what time.time() returned to the last expiry check
                         \* of the session (0: the check has not read the clock)
    last_key,            \* the key of the KEYDOWN event the loop handled last,
                         \* "NONE" once anything else has happened
    popped,              \* the cell snake_body.pop() removed (line 224) when
                         \* the last step was a tick that did not eat, else
                         \* None
    pc                   \* "play": in "while running"; "over": in
                         \* game_over_screen; "hung": in a placement loop that
                         \* cannot end; "quit": returned from game_loop;
                         \* "crashed": an exception has left game_loop

vars == <<snake_body, food_pos, powerup_pos, direction, score, paused, speed,
          powerup_active, powerup_timer, last_powerup_spawn, high_score,
          highscore_txt, clock, checked_at, last_key, popped, pc>>

session == <<snake_body, food_pos, powerup_pos, direction, score, paused,
             speed, powerup_active, powerup_timer, last_powerup_spawn,
             high_score, checked_at>>

\* ------------------------------------------------------------ the clock
\* what a call of time.time() returns lag quanta after the reading t
Read(t, lag) == t + lag

\* ------------------------------------------------------- highscore.txt
\* The file is missing, or holds a text: a sequence of decimal digits.
NoFile == [exists |-> FALSE, text |-> <<>>]

RECURSIVE str(_)
str(n) == IF n < 10 THEN <<n>> ELSE Append(str(n \div 10), n % 10)

RECURSIVE int(_)
int(t) == IF Len(t) = 1 THEN t[1]
          ELSE 10 * int(SubSeq(t, 1, Len(t) - 1)) + t[Len(t)]

\* open() raises IOError on a missing file, int() ValueError on an empty text
load_high_score(f) ==
    IF ~f.exists \/ f.text = <<>> THEN 0 ELSE int(f.text)

save_high_score(n) == [exists |-> TRUE, text |-> str(n)]

\* ------------------------------------------------------ game components
\* mutant of create_snake: the snake starts with a second segment
create_snake_of_two ==
    << <<GRID_WIDTH \div 2, GRID_HEIGHT \div 2>>,
       <<GRID_WIDTH \div 2 - 1, GRID_HEIGHT \div 2>> >>

create_snake == << <<GRID_WIDTH \div 2, GRID_HEIGHT \div 2>> >>

Range(s) == {s[i] : i \in 1 .. Len(s)}

\* mutant of create_food: tests the body as it was before the move
create_food_old_body(body) == {c \in Cells : c \notin Range(Tail(body))}

\* the cells the rejection loops of create_food / create_powerup can return;
\* the loops never return when the set is empty
create_food(body) == {c \in Cells : c \notin Range(body)}

\* mutant of create_powerup: the snake is not tested
create_powerup_anywhere(body) == Cells

create_powerup(body) == {c \in Cells : c \notin Range(body)}

\* ----------------------------------------------------------- game logic
move_snake(body, dir) ==
    LET head == body[1]
        new_head ==
            IF dir = "UP" THEN <<head[1], head[2] - 1>>
            ELSE IF dir = "DOWN" THEN <<head[1], head[2] + 1>>
            ELSE IF dir = "LEFT" THEN <<head[1] - 1, head[2]>>
            ELSE IF dir = "RIGHT" THEN <<head[1] + 1, head[2]>>
            ELSE head
    IN <<new_head>> \o body

\* mutant of pop: the tail is never removed
pop_nothing(body) == body

\* snake_body.pop()
pop(body) == SubSeq(body, 1, Len(body) - 1)

\* mutant of check_collision: "head in snake_body" for "head in
\* snake_body[1:]"
check_collision_with_head(body) ==
    LET head == body[1]
    IN \/ head[1] < 0 \/ head[1] >= GRID_WIDTH
       \/ head[2] < 0 \/ head[2] >= GRID_HEIGHT
       \/ \E i \in 1 .. Len(body) : body[i] = head

\* mutant of check_collision: only the walls are tested
check_collision_walls_only(body) ==
    LET head == body[1]
    IN head[1] < 0 \/ head[1] >= GRID_WIDTH \/ head[2] < 0 \/ head[2] >= GRID_HEIGHT

\* mutant of check_collision: ">" for ">=" at the right and bottom walls
check_collision_late(body) ==
    LET head == body[1]
    IN \/ head[1] < 0 \/ head[1] > GRID_WIDTH
       \/ head[2] < 0 \/ head[2] > GRID_HEIGHT
       \/ \E i \in 2 .. Len(body) : body[i] = head

check_collision(body) ==
    LET head == body[1]
    IN \/ head[1] < 0 \/ head[1] >= GRID_WIDTH
       \/ head[2] < 0 \/ head[2] >= GRID_HEIGHT
       \/ \E i \in 2 .. Len(body) : body[i] = head

\* mutant of toggle: the key only pauses
toggle_on(p) == TRUE

\* "paused = not paused"
toggle(p) == ~p

\* mutant of turn: LEFT lacks its guard
turn_unguarded(dir, key) ==
    IF key = "UP" /\ dir # "DOWN" THEN "UP"
    ELSE IF key = "DOWN" /\ dir # "UP" THEN "DOWN"
    ELSE IF key = "LEFT" THEN "LEFT"
    ELSE IF key = "RIGHT" /\ dir # "LEFT" THEN "RIGHT"
    ELSE dir

\* the arrow-key chain of the KEYDOWN branch: the direction after key
turn(dir, key) ==
    IF key = "UP" /\ dir # "DOWN" THEN "UP"
    ELSE IF key = "DOWN" /\ dir # "UP" THEN "DOWN"
    ELSE IF key = "LEFT" /\ dir # "RIGHT" THEN "LEFT"
    ELSE IF key = "RIGHT" /\ dir # "LEFT" THEN "RIGHT"
    ELSE dir

\* mutant of steer: arrow keys are handled during a pause too
steer_paused(p, dir, key) == turn(dir, key)

\* "elif not paused:" and the chain under it
steer(p, dir, key) == IF ~p THEN turn(dir, key) ELSE dir

\* mutant of eats_powerup: a power-up is eaten only when the head comes
\* onto it from the cell to its left or right
eats_powerup_from_side(body, pos) ==
    pos # None /\ body[1] = pos /\ Len(body) >= 2 /\ body[2][2] = pos[2]

\* "if powerup_pos and snake_body[0] == powerup_pos"
eats_powerup(body, pos) == pos # None /\ body[1] = pos

\* mutant of speed_on_powerup: the speed is left as it was
speed_on_powerup_kept(boost, old) == old

\* "speed = SNAKE_SPEED_BOOST" under the power-up collision test
speed_on_powerup(boost, old) == IF boost THEN SNAKE_SPEED_BOOST ELSE old

\* mutant of expired: ">=" for ">"
expired_early(now, timer) == now - timer >= POWERUP_DURATION

\* "time.time() - powerup_timer > POWERUP_DURATION"
expired(now, timer) == now - timer > POWERUP_DURATION

\* mutant of spawn_due: ">=" for ">"
spawn_due_at_interval(now, last, pos) ==
    now - last >= POWERUP_SPAWN_INTERVAL /\ pos = None

\* "time.time() - last_powerup_spawn > POWERUP_SPAWN_INTERVAL and not powerup_pos"
spawn_due(now, last, pos) == now - last > POWERUP_SPAWN_INTERVAL /\ pos = None

\* mutant of beats: ">=" for ">"
beats_or_ties(s, high) == s >= high

\* "if score > high_score"
beats(s, high) == s > high

\* ------------------------------------------------------------------ Init
\* mutant of NewSession: the score is carried over from the session before
NewSession_keeps_score(f, now) ==
    /\ high_score' = load_high_score(f)
    /\ snake_body' = create_snake
    /\ food_pos' \in create_food(create_snake)
    /\ powerup_pos' = None
    /\ direction' = "RIGHT"
    /\ UNCHANGED score
    /\ paused' = FALSE
    /\ speed' = SNAKE_SPEED_NORMAL
    /\ powerup_active' = FALSE
    /\ powerup_timer' = 0
    /\ last_powerup_spawn' = now
    /\ checked_at' = 0

\* game_loop up to the first iteration of "while running"
NewSession(f, now) ==
    /\ high_score' = load_high_score(f)
    /\ snake_body' = create_snake
    /\ food_pos' \in create_food(create_snake)
    /\ powerup_pos' = None
    /\ direction' = "RIGHT"
    /\ score' = 0
    /\ paused' = FALSE
    /\ speed' = SNAKE_SPEED_NORMAL
    /\ powerup_active' = FALSE
    /\ powerup_timer' = 0
    /\ last_powerup_spawn' = now
    /\ checked_at' = 0

Init ==
    /\ highscore_txt = NoFile
    /\ clock = 0
    /\ pc = "play"
    /\ high_score = load_high_score(NoFile)
    /\ snake_body = create_snake
    /\ food_pos \in create_food(create_snake)
    /\ powerup_pos = None
    /\ direction = "RIGHT"
    /\ score = 0
    /\ paused = FALSE
    /\ speed = SNAKE_SPEED_NORMAL
    /\ powerup_active = FALSE
    /\ powerup_timer = 0
    /\ last_powerup_spawn = 0
    /\ checked_at = 0
    /\ last_key = "NONE"
    /\ popped = None

\* --------------------------------------------------------------- actions
\* one pygame.KEYDOWN event of the event loop
KeyDown(key) ==
    /\ pc = "play"
    /\ IF key = "SPACE"
       THEN paused' = toggle(paused) /\ UNCHANGED direction
       ELSE direction' = steer(paused, direction, key) /\ UNCHANGED paused
    /\ last_key' = key
    /\ popped' = None
    /\ UNCHANGED <<snake_body, food_pos, powerup_pos, score, speed,
                   powerup_active, powerup_timer, last_powerup_spawn,
                   high_score, highscore_txt, clock, checked_at, pc>>

\* pygame.QUIT in the event loop
Quit ==
    /\ pc = "play"
    /\ pc' = "quit"
    /\ last_key' = "NONE"
    /\ popped' = None
    /\ UNCHANGED <<session, highscore_txt, clock>>

\* time passes while the loop sleeps in clock.tick, shows the pause screen
\* or waits in game_over_screen
Elapse ==
    /\ pc \in {"play", "over"}
    /\ clock < MaxTime
    /\ clock' = clock + 1
    /\ last_key' = "NONE"
    /\ popped' = None
    /\ UNCHANGED <<session, highscore_txt, pc>>

\* The rest of one iteration of "while running" when not paused: the move,
\* food, power-up, expiry, spawn and game-over steps. f is the cell
\* create_food returns, p the cell create_powerup returns, l1..l4 the time
\* taken up to each of the four calls of time.time() (lines 230, 234, 239,
\* 241; a call that is not made takes none), ok whether save_high_score
\* succeeds (when it raises, the file is left as it was and the exception
\* leaves game_loop). A tick that goes on ends in clock.tick(speed), which
\* takes a quantum.
Tick ==
    /\ pc = "play"
    /\ ~paused
    /\ LET moved == move_snake(snake_body, direction)
           eats == moved[1] = food_pos
       IN
       IF eats /\ create_food(moved) = {}
       THEN \* create_food loops forever
            /\ snake_body' = moved
            /\ score' = score + 1
            /\ pc' = "hung"
            /\ last_key' = "NONE"
            /\ popped' = None
            /\ UNCHANGED <<food_pos, powerup_pos, direction, paused, speed,
                           powerup_active, powerup_timer, last_powerup_spawn,
                           high_score, highscore_txt, clock, checked_at>>
       ELSE
       LET body == IF eats THEN moved ELSE pop(moved)
           score1 == IF eats THEN score + 1 ELSE score
           \* power-up collision
           boost == eats_powerup(body, powerup_pos)
           speed1 == speed_on_powerup(boost, speed)
           active1 == boost \/ powerup_active
           pos1 == IF boost THEN None ELSE powerup_pos
           \* game over
           dead == check_collision(body)
           record == dead /\ beats(score1, high_score)
       IN
       \E f \in (IF eats THEN create_food(moved) ELSE {food_pos}),
          l1 \in (IF boost THEN Lags ELSE {0}),
          l2 \in (IF active1 THEN Lags ELSE {0}),
          l3 \in Lags :
         LET t1 == Read(clock, l1)
             timer1 == IF boost THEN t1 ELSE powerup_timer
             \* power-up timer
             t2 == Read(t1, l2)
             off == active1 /\ expired(t2, timer1)
             speed2 == IF off THEN SNAKE_SPEED_NORMAL ELSE speed1
             active2 == active1 /\ ~off
             \* spawn power-up
             t3 == Read(t2, l3)
             due == spawn_due(t3, last_powerup_spawn, pos1)
             stuck == due /\ create_powerup(body) = {}
             spawns == due /\ ~stuck
         IN
         \E p \in (IF spawns THEN create_powerup(body) ELSE {pos1}),
            l4 \in (IF spawns THEN Lags ELSE {0}),
            ok \in (IF record /\ ~stuck THEN BOOLEAN ELSE {TRUE}) :
           LET t4 == Read(t3, l4)
           IN
           /\ snake_body' = body
           /\ score' = score1
           /\ food_pos' = f
           /\ speed' = speed2
           /\ powerup_active' = active2
           /\ powerup_timer' = timer1
           /\ checked_at' = IF active1 THEN t2 ELSE 0
           /\ powerup_pos' = p
           /\ last_powerup_spawn' = IF spawns THEN t4 ELSE last_powerup_spawn
           /\ t4 < MaxTime
           /\ clock' = IF ~stuck /\ ~dead THEN t4 + 1 ELSE t4
           /\ high_score' = IF record /\ ~stuck THEN score1 ELSE high_score
           /\ highscore_txt' = IF record /\ ~stuck /\ ok
                               THEN save_high_score(score1)
                               ELSE highscore_txt
           /\ pc' = IF stuck THEN "hung"
                    ELSE IF record /\ ~ok THEN "crashed"
                    ELSE IF dead THEN "over"
                    ELSE "play"
           /\ last_key' = "NONE"
           /\ popped' = IF eats THEN None ELSE moved[Len(moved)]
           /\ UNCHANGED <<direction, paused>>

\* 'R' in game_over_screen: running = False, the outer loop starts a session
Restart ==
    /\ pc = "over"
    /\ \E lag \in Lags :
         /\ NewSession(highscore_txt, Read(clock, lag))
         /\ clock' = Read(clock, lag)
         /\ clock' <= MaxTime
    /\ pc' = "play"
    /\ last_key' = "NONE"
    /\ popped' = None
    /\ UNCHANGED highscore_txt

\* 'Q' or pygame.QUIT in game_over_screen
QuitOver ==
    /\ pc = "over"
    /\ pc' = "quit"
    /\ last_key' = "NONE"
    /\ popped' = None
    /\ UNCHANGED <<session, highscore_txt, clock>>

Next ==
    \/ \E key \in Keys : KeyDown(key)
    \/ Quit
    \/ Elapse
    \/ Tick
    \/ Restart
    \/ QuitOver

Spec == Init /\ [][Next]_vars

\* ------------------------------------------------------------ properties
InGrid(c) ==
    c[1] >= 0 /\ c[1] < GRID_WIDTH /\ c[2] >= 0 /\ c[2] < GRID_HEIGHT

Ahead(c, d) ==
    CASE d = "UP" -> <<c[1], c[2] - 1>>
      [] d = "DOWN" -> <<c[1], c[2] + 1>>
      [] d = "LEFT" -> <<c[1] - 1, c[2]>>
      [] d = "RIGHT" -> <<c[1] + 1, c[2]>>

Opposite(d) ==
    CASE d = "UP" -> "DOWN"
      [] d = "DOWN" -> "UP"
      [] d = "LEFT" -> "RIGHT"
      [] d = "RIGHT" -> "LEFT"

\* c is one of body[from], body[from + 1], ...
OnBody(c, body, from) == \E i \in from .. Len(body) : body[i] = c

\* the high score a load of the file gives
HighOnFile == load_high_score(highscore_txt)

\* A step that is a processed tick: the only step of a running session that
\* moves the snake.
TickStep == pc = "play" /\ snake_body' # snake_body

\* the tick took the game-over branch (line 244); save_high_score may then
\* have raised
GameOverTaken == pc' \in {"over", "crashed"}

\* the time of the tick's last reading of the clock (line 239 or 241), before
\* the delay of clock.tick
TickEnd == IF pc' = "play" THEN clock' - 1 ELSE clock'

\* the tick's new head is on the power-up
Consumed == powerup_pos # None /\ snake_body'[1] = powerup_pos

\* C1: a processed tick takes the game-over branch if and only if, in the
\* post-move body, the head is out of bounds or equals another segment; a
\* snake moving RIGHT from the last column goes to game over on that tick,
\* with head x = GRID_WIDTH.
C1_GameOverIffCollision ==
    [][TickStep =>
        LET head == snake_body'[1]
        IN /\ GameOverTaken <=>
                (~InGrid(head) \/ OnBody(head, snake_body', 2))
           /\ (direction = "RIGHT" /\ snake_body[1][1] = GRID_WIDTH - 1) =>
                (GameOverTaken /\ head[1] = GRID_WIDTH)
           /\ (direction = "RIGHT" /\ GameOverTaken /\ head[2] >= 0
               /\ head[2] < GRID_HEIGHT /\ ~OnBody(head, snake_body', 2)) =>
                head[1] = GRID_WIDTH
    ]_vars

\* a snake of length 3 moving RIGHT has crossed the width boundary
C1_Witness ==
    /\ pc = "over"
    /\ direction = "RIGHT"
    /\ Len(snake_body) = 3
    /\ snake_body[1][1] = GRID_WIDTH

\* C2: on a processed tick the new body is the new head followed by the old
\* body, minus its last cell when the head is not on the food; on the food
\* the score grows by one and the food moves to another cell, otherwise
\* score and food stay.
C2_GrowthAndScore ==
    [][TickStep =>
        LET head == Ahead(snake_body[1], direction)
        IN IF head = food_pos
           THEN /\ snake_body' = <<head>> \o snake_body
                /\ Len(snake_body') = Len(snake_body) + 1
                /\ score' = score + 1
                /\ pc' # "hung" => (food_pos' # food_pos /\ InGrid(food_pos'))
           ELSE /\ snake_body' =
                     <<head>> \o SubSeq(snake_body, 1, Len(snake_body) - 1)
                /\ Len(snake_body') = Len(snake_body)
                /\ score' = score
                /\ food_pos' = food_pos
    ]_vars

\* the head has eaten from length 1: the scenario of the specification
C2_Witness ==
    /\ pc = "play"
    /\ score = 1
    /\ Len(snake_body) = 2
    /\ snake_body[2] = create_snake[1]
    /\ food_pos \notin Range(snake_body)

\* C3: an arrow key that is the exact opposite of the stored direction
\* changes neither the direction nor anything else of the session, whatever
\* the direction and the length of the snake.
C3_ReversalRejected ==
    [][last_key' = Opposite(direction) =>
        UNCHANGED <<session, highscore_txt, clock, pc>>]_vars

\* a reversal was submitted to a running snake of length 1 and dropped
C3_Witness ==
    /\ pc = "play"
    /\ ~paused
    /\ Len(snake_body) = 1
    /\ last_key = Opposite(direction)

\* C4: every cell given to the food (at session start and after eating)
\* and to a power-up is in the grid and off the snake as it is then, the
\* new head included.
C4_PlacementOffSnake ==
    /\ InGrid(food_pos) /\ ~OnBody(food_pos, snake_body, 1)
    /\ [][/\ (food_pos' # food_pos \/ (pc = "over" /\ pc' = "play")) =>
                (InGrid(food_pos') /\ ~OnBody(food_pos', snake_body', 1))
          /\ (powerup_pos' # None /\ powerup_pos' # powerup_pos) =>
                (InGrid(powerup_pos')
                 /\ ~OnBody(powerup_pos', snake_body', 1))
       ]_vars

\* a power-up has been placed and the food has been relocated
C4_Witness ==
    /\ pc = "play"
    /\ powerup_pos # None
    /\ score > 0

\* C5: the file changes only on a game-over tick whose score is greater
\* than the high score loaded at session start, and then holds exactly the
\* score; a game over that saves leaves the score on file; the value on
\* file never decreases; while a session runs high_score is the value on
\* file.
C5_HighScore ==
    /\ [](pc = "play" => high_score = HighOnFile)
    /\ [][/\ highscore_txt' # highscore_txt =>
                /\ TickStep /\ pc' = "over"
                /\ score' > HighOnFile
                /\ HighOnFile' = score'
                /\ highscore_txt'.exists
          /\ (TickStep /\ pc' = "over" /\ score' > HighOnFile) =>
                (HighOnFile' = score' /\ high_score' = score')
          /\ HighOnFile' >= HighOnFile
       ]_vars

\* a game over has put a positive score on file
C5_Witness ==
    /\ pc = "over"
    /\ score > 0
    /\ highscore_txt.exists
    /\ HighOnFile = score

\* C6 as stated: the expiry check turns an active boost off exactly when
\* the time it reads is more than POWERUP_DURATION after the activation,
\* and at the end of the tick an active boost is at most POWERUP_DURATION
\* old.
C6_BoostWithinDurationAtTickEnd ==
    [][(TickStep /\ pc' # "hung") =>
        /\ powerup_active' <=>
             /\ (powerup_active \/ Consumed)
             /\ ~(checked_at' - powerup_timer' > POWERUP_DURATION)
        /\ powerup_active' => TickEnd - powerup_timer' <= POWERUP_DURATION
    ]_vars

\* C6 amended: the expiry check turns an active boost off exactly when the
\* time it reads is more than POWERUP_DURATION after the activation; after
\* the tick an active boost was at most POWERUP_DURATION old when the check
\* read the clock.
C6_ExpiryAtCheck ==
    [][(TickStep /\ pc' # "hung") =>
        /\ powerup_active' <=>
             /\ (powerup_active \/ Consumed)
             /\ ~(checked_at' - powerup_timer' > POWERUP_DURATION)
        /\ powerup_active' =>
             checked_at' - powerup_timer' <= POWERUP_DURATION
    ]_vars

\* the check has left a boost on that was exactly POWERUP_DURATION old
C6_Witness ==
    /\ pc = "play"
    /\ powerup_active
    /\ checked_at = powerup_timer + POWERUP_DURATION

\* C7: while the game is paused nothing but a quit or the pause key changes
\* the session: snake, food, power-up, score, direction, boost, speed and
\* status stay, also on the step that ends the pause.
C7_PausedFrozen ==
    [][(pc = "play" /\ paused /\ pc' # "quit") =>
        /\ pc' = "play"
        /\ UNCHANGED <<snake_body, food_pos, powerup_pos, score, direction,
                       speed, powerup_active, powerup_timer,
                       last_powerup_spawn, high_score, highscore_txt>>
    ]_vars

\* a turn the running game would take was submitted during the pause and the
\* direction is as before
C7_Witness ==
    /\ pc = "play"
    /\ paused
    /\ last_key \in Directions \ {direction, Opposite(direction)}

\* C8: the pause key flips paused and changes nothing else, paused or not.
C8_ToggleOnlyFlips ==
    [][last_key' = "SPACE" =>
        /\ paused' = ~paused
        /\ UNCHANGED <<snake_body, food_pos, powerup_pos, score, direction,
                       speed, powerup_active, powerup_timer,
                       last_powerup_spawn, high_score, highscore_txt,
                       checked_at, clock, pc>>
    ]_vars

\* the pause key was handled while paused: the game runs again, mid-session
C8_Witness ==
    /\ pc = "play"
    /\ last_key = "SPACE"
    /\ ~paused
    /\ score > 0

\* C9: placement always ends: no tick stays in create_food or
\* create_powerup, also when the snake eats the last free cell.
C9_PlacementTerminates == pc # "hung"

\* C10: a failing save at game over does not abort the program: the
\* game-over screen is reached.
C10_SaveFailureNonFatal == pc # "crashed"

\* C11: in every reachable state the tick rate is one of exactly two values,
\* the normal one or the boosted one, which is twice the normal one, and it
\* is the boosted one if and only if the boost is active.
C11_TwoSpeeds ==
    /\ speed \in {SNAKE_SPEED_NORMAL, SNAKE_SPEED_BOOST}
    /\ SNAKE_SPEED_BOOST = 2 * SNAKE_SPEED_NORMAL
    /\ SNAKE_SPEED_BOOST # SNAKE_SPEED_NORMAL
    /\ speed = SNAKE_SPEED_BOOST <=> powerup_active

\* a session that was boosted and has fallen back to the normal rate
C11_Witness ==
    /\ pc = "play"
    /\ powerup_timer > 0
    /\ ~powerup_active
    /\ speed = SNAKE_SPEED_NORMAL
    /\ checked_at - powerup_timer > POWERUP_DURATION

\* a step of a running session that puts a power-up on the grid
Spawned == pc = "play" /\ powerup_pos' # None /\ powerup_pos' # powerup_pos

\* C12: within a session there is at most one power-up; a power-up is
\* spawned only by a tick at whose spawn step none is present (none before,
\* or the one there was has just been eaten) and only when more than
\* POWERUP_SPAWN_INTERVAL has passed since the previous spawn or, for the
\* first, since the session started, so that the recorded times of two
\* consecutive spawns are more than POWERUP_SPAWN_INTERVAL apart; a power-up
\* on the grid stays on its cell, whatever time passes, until the head
\* moves onto it.
C12_PowerupLifecycle ==
    /\ [](powerup_pos = None \/ powerup_pos \in Cells)
    /\ [][Spawned =>
            /\ TickStep
            /\ powerup_pos = None \/ Consumed
            /\ TickEnd - last_powerup_spawn > POWERUP_SPAWN_INTERVAL
            /\ last_powerup_spawn' - last_powerup_spawn > POWERUP_SPAWN_INTERVAL
            /\ last_powerup_spawn' <= TickEnd
       ]_vars
    /\ [][(pc = "play" /\ last_powerup_spawn' # last_powerup_spawn) => Spawned]_vars
    /\ [][(pc = "play" /\ powerup_pos # None /\ powerup_pos' # powerup_pos) =>
            (TickStep /\ Consumed)]_vars

\* the second power-up of a session, spawned after the first was eaten
C12_Witness ==
    /\ pc = "play"
    /\ powerup_pos # None
    /\ powerup_timer > 0
    /\ last_powerup_spawn > powerup_timer
    /\ last_powerup_spawn - powerup_timer <= POWERUP_SPAWN_INTERVAL

\* The direction the previous tick of the session used, for a snake of two
\* or more segments: the one that leads from the second segment to the head.
UsedBefore == CHOOSE d \in Directions : Ahead(snake_body[2], d) = snake_body[1]

\* C13: whatever direction keys were handled since the previous tick, a tick
\* never uses the exact opposite of the direction the previous tick used; so
\* for a snake of length >= 2 the new head is never on the cell of the
\* segment behind the old head, and no tick goes to game over by reversing.
\* (Stated for snakes of length >= 2, where the body shows the direction of
\* the previous tick.)
C13_NoReversalBetweenTicks ==
    [][(TickStep /\ Len(snake_body) >= 2) =>
        /\ direction # Opposite(UsedBefore)
        /\ snake_body'[1] # snake_body[2]
        /\ ~(GameOverTaken /\ snake_body'[1] = snake_body[2])
    ]_vars

\* the state of a session as its first iteration finds it
Fresh ==
    /\ snake_body = << <<GRID_WIDTH \div 2, GRID_HEIGHT \div 2>> >>
    /\ direction = "RIGHT"
    /\ score = 0
    /\ ~paused
    /\ powerup_pos = None
    /\ ~powerup_active
    /\ speed = SNAKE_SPEED_NORMAL
    /\ high_score = HighOnFile

\* C14: game over is terminal for a session. Once a tick has taken the
\* game-over branch, no step moves the snake or changes the score, the
\* food, the power-up or the boost of that session; the game either ends
\* (quit) or restarts, and a restart gives a fresh session: a snake of the
\* one cell (GRID_WIDTH \div 2, GRID_HEIGHT \div 2), direction RIGHT, score
\* 0, not paused, no power-up, boost inactive, normal speed, and the high
\* score read again from the file.
C14_GameOverTerminal ==
    [][(pc = "over" \/ pc = "crashed") =>
        IF pc' = "play"
        THEN /\ pc = "over"
             /\ Fresh'
             /\ food_pos' \in Cells
             /\ food_pos' # snake_body'[1]
             /\ highscore_txt' = highscore_txt
        ELSE /\ pc' \in {pc, "quit"}
             /\ UNCHANGED <<snake_body, food_pos, powerup_pos, direction,
                            score, paused, speed, powerup_active,
                            powerup_timer, last_powerup_spawn, high_score,
                            highscore_txt>>
    ]_vars

\* a session started by a restart after a session that set a record
C14_Witness ==
    /\ pc = "play"
    /\ Fresh
    /\ high_score > 0
    /\ last_powerup_spawn > 0
    /\ last_powerup_spawn = clock

\* C15: in every state of a running session (the last tick detected no
\* collision) the snake is not empty, all its cells are in the grid and no
\* two of its segments are on the same cell.
C15_SnakeWellFormed ==
    pc = "play" =>
        /\ Len(snake_body) >= 1
        /\ \A i \in 1 .. Len(snake_body) : InGrid(snake_body[i])
        /\ \A i, j \in 1 .. Len(snake_body) :
              snake_body[i] = snake_body[j] => i = j

\* a running snake of three segments that has turned a corner
C15_Witness ==
    /\ pc = "play"
    /\ Len(snake_body) = 3
    /\ snake_body[1][1] # snake_body[3][1]
    /\ snake_body[1][2] # snake_body[3][2]

\* C16: a tick that is completed and whose new head is on the power-up
\* leaves the boost active, with the activation time set to a reading of
\* the clock taken during that tick (whether or not a boost was active
\* before), the speed boosted, and no power-up on the eaten cell.
C16_ConsumptionBoosts ==
    [][(TickStep /\ Consumed /\ pc' # "hung") =>
        /\ powerup_active'
        /\ speed' = SNAKE_SPEED_BOOST
        /\ clock <= powerup_timer'
        /\ powerup_timer' <= TickEnd
        /\ powerup_pos' # powerup_pos
        /\ powerup_pos' # snake_body'[1]
    ]_vars

\* the state a consuming tick has just left
C16_Witness ==
    /\ pc = "play"
    /\ powerup_active
    /\ speed = SNAKE_SPEED_BOOST
    /\ powerup_pos = None
    /\ powerup_timer > 0
    /\ powerup_timer = clock - 1

\* the last segment of the snake
TailCell == snake_body[Len(snake_body)]

\* C17: the self-collision test looks at the body as the tick leaves it,
\* without its head. A tick that does not eat and whose new head is on the
\* cell the tail had before the move (the tail leaves it in this tick) does
\* not go to game over, and a snake of length 1 that moves to a cell of the
\* grid does not go to game over.
C17_CollisionOnFinalBody ==
    [][TickStep =>
        /\ popped' = IF Len(snake_body') = Len(snake_body)
                     THEN TailCell ELSE None
        /\ GameOverTaken =>
              (~InGrid(snake_body'[1]) \/ OnBody(snake_body'[1], snake_body', 2))
        /\ (popped' # None /\ snake_body'[1] = popped') => ~GameOverTaken
        /\ (Len(snake_body) = 1 /\ InGrid(snake_body'[1])) => ~GameOverTaken
    ]_vars

\* a running game whose last tick put the head on the cell the tail left
C17_Witness ==
    /\ pc = "play"
    /\ Len(snake_body) >= 2
    /\ popped # None
    /\ popped = snake_body[1]

\* C18: in every state the body has Score + 1 segments, Score being a
\* natural number; within a session the score never goes down and the snake
\* never gets shorter.
C18_LengthIsScorePlusOne ==
    /\ [](score >= 0 /\ Len(snake_body) = score + 1)
    /\ [][(pc = "play") =>
            (score' >= score /\ Len(snake_body') >= Len(snake_body))]_vars

\* a running session that has eaten twice, after an earlier session
C18_Witness ==
    /\ pc = "play"
    /\ score = 2
    /\ Len(snake_body) = 3
    /\ high_score > 0
    /\ HighOnFile = high_score

C20_GameOverTickEatsNothing ==
    /\ [][(TickStep /\ pc' # "hung") =>
            /\ ~OnBody(food_pos', snake_body', 1)
            /\ (powerup_pos' = None \/ ~OnBody(powerup_pos', snake_body', 1))
       ]_vars
    /\ [][(TickStep /\ GameOverTaken) =>
            /\ snake_body'[1] # food_pos
            /\ ~Consumed
            /\ score' = score
            /\ food_pos' = food_pos
            /\ Len(snake_body') = Len(snake_body)
            /\ powerup_timer' = powerup_timer
            /\ (powerup_active' => powerup_active)
       ]_vars

\* game over by self-collision, with food and a power-up on the grid
C20_Witness ==
    /\ pc = "over"
    /\ powerup_pos # None
    /\ OnBody(snake_body[1], snake_body, 2)
    /\ ~OnBody(food_pos, snake_body, 1)
    /\ ~OnBody(powerup_pos, snake_body, 1)

====
